---- MODULE Spec2Model ----
(***************************************************************************)
(* The vacancy statistics program (Daniil-Obukhov-at-36-3.2.3.py): CSV     *)
(* rows are validated and normalised, turned into Vacancy objects, grouped *)
(* by year, the profession series is gap-filled, and the per-file          *)
(* mappings computed by a pool of worker processes are merged by the       *)
(* parent process and handed to the report.                                *)
(* The companion program (Daniil-Obukhov-at-36-3.2.1.py) splits one CSV    *)
(* file into one file per year; its loop is the third specification.       *)
(*                                                                         *)
(* Representation.  A str is a sequence of one-character strings, a list   *)
(* is a sequence, a dict is the sequence of its <<key, value>> items in    *)
(* insertion order.  A float read from a salary field is held in tenths    *)
(* (FloatScale), average_salary in halves, and a converted salary in       *)
(* units of 1/MoneyScale rouble, so that every rate of the table is exact; *)
(* binary rounding of the floats is not modelled.  A call that can raise   *)
(* returns [ok, err, val].                                                 *)
(***************************************************************************)
EXTENDS Integers, Sequences, FiniteSets, TLC

VARIABLES files, profession, tasks, completed, mainpc, r, mergeIdx,
          year_salary, year_vacancy, professions_year_salary,
          professions_year_vacancies, report, nf, splitter

vars == <<files, profession, tasks, completed, mainpc, r, mergeIdx,
          year_salary, year_vacancy, professions_year_salary,
          professions_year_vacancies, report, nf, splitter>>

(* ------------------------------ bounds --------------------------------- *)

\* Data rows of the file of a one-file corpus.
MaxRows == 3

\* Files of a corpus of several files.
MaxFiles == 2

\* Worker processes of the pool (the machine's processor count).
NumWorkers == 2

\* Characters of a raw field handed to the normaliser on its own.
MaxFieldLen == 4

\* Data rows of the file handed to the splitter.
MaxSplitRows == 3

(* --------------------------- python built-ins -------------------------- *)

Ok(v) == [ok |-> TRUE, err |-> "", val |-> v]

Raise(e) == [ok |-> FALSE, err |-> e, val |-> <<>>]

SeqsUpTo(S, n) == UNION {[1..k -> S] : k \in 0..n}

Digits == {"0", "1", "2", "3", "4", "5", "6", "7", "8", "9"}

DigitVal(c) ==
    CASE c = "0" -> 0 [] c = "1" -> 1 [] c = "2" -> 2 [] c = "3" -> 3
      [] c = "4" -> 4 [] c = "5" -> 5 [] c = "6" -> 6 [] c = "7" -> 7
      [] c = "8" -> 8 [] c = "9" -> 9

\* str.split() separators
Whitespace == {" ", "\n", "\t"}

AllDigits(s) == s # <<>> /\ \A i \in 1..Len(s) : s[i] \in Digits

RECURSIVE DecimalValue(_)
DecimalValue(s) ==
    IF s = <<>> THEN 0
    ELSE 10 * DecimalValue(SubSeq(s, 1, Len(s) - 1)) + DigitVal(s[Len(s)])

\* int(x) of a float x = a / b: truncation towards zero
TruncDiv(a, b) == IF a >= 0 THEN a \div b ELSE -((-a) \div b)

\* int(s) of a str: an optional sign and decimal digits, else ValueError
PyInt(s) ==
    LET neg  == s # <<>> /\ s[1] = "-"
        body == IF neg THEN Tail(s) ELSE s
    IN  IF AllDigits(body)
        THEN Ok(IF neg THEN -DecimalValue(body) ELSE DecimalValue(body))
        ELSE Raise("ValueError")

\* a float is held in tenths
FloatScale == 10

\* float(s) of a str: an optional sign, digits and at most one decimal digit
\* (the salary fields of the rows considered), else ValueError
PyFloat(s) ==
    LET neg  == s # <<>> /\ s[1] = "-"
        body == IF neg THEN Tail(s) ELSE s
        dot  == {i \in 1..Len(body) : body[i] = "."}
        whole == IF dot = {} THEN body
                 ELSE SubSeq(body, 1, (CHOOSE i \in dot : TRUE) - 1)
        frac  == IF dot = {} THEN <<>>
                 ELSE SubSeq(body, (CHOOSE i \in dot : TRUE) + 1, Len(body))
        mag   == FloatScale * DecimalValue(whole)
                   + (IF frac = <<>> THEN 0 ELSE DigitVal(frac[1]))
    IN  IF Cardinality(dot) <= 1 /\ AllDigits(whole)
           /\ (frac = <<>> \/ (Len(frac) = 1 /\ AllDigits(frac)))
        THEN Ok(IF neg THEN -mag ELSE mag)
        ELSE Raise("ValueError")

\* sub in s
Contains(sub, s) ==
    \E i \in 1..(Len(s) + 1) :
        i + Len(sub) - 1 <= Len(s) /\ SubSeq(s, i, i + Len(sub) - 1) = sub

\* list.insert(idx, x): a negative index counts from the end, and an index
\* outside the list is clamped to its ends
ListInsert(l, idx, x) ==
    LET i0 == IF idx < 0 THEN idx + Len(l) ELSE idx
        i  == IF i0 < 0 THEN 0 ELSE IF i0 > Len(l) THEN Len(l) ELSE i0
    IN  SubSeq(l, 1, i) \o <<x>> \o SubSeq(l, i + 1, Len(l))

\* the 1-based position l[idx] names, 0 when l[idx] raises IndexError
ListIndex(l, idx) ==
    LET i0 == IF idx < 0 THEN idx + Len(l) ELSE idx
    IN  IF i0 < 0 \/ i0 >= Len(l) THEN 0 ELSE i0 + 1

(* -------------------------------- dict --------------------------------- *)

DictKeys(d) == [i \in 1..Len(d) |-> d[i][1]]

DictValues(d) == [i \in 1..Len(d) |-> d[i][2]]

KeySet(d) == {d[i][1] : i \in 1..Len(d)}

DictGet(d, k) == d[CHOOSE i \in 1..Len(d) : d[i][1] = k][2]

\* d[k] = v: a key already there keeps its place and takes the new value
DictSet(d, k, v) ==
    IF k \in KeySet(d)
    THEN [i \in 1..Len(d) |-> IF d[i][1] = k THEN <<k, v>> ELSE d[i]]
    ELSE Append(d, <<k, v>>)

\* {x: y for x, y in zip(ks, vs)}
RECURSIVE DictFromZip(_, _)
DictFromZip(ks, vs) ==
    IF ks = <<>> \/ vs = <<>> THEN <<>>
    ELSE LET n == IF Len(ks) < Len(vs) THEN Len(ks) ELSE Len(vs)
         IN  DictSet(DictFromZip(SubSeq(ks, 1, n - 1), SubSeq(vs, 1, n - 1)),
                     ks[n], vs[n])

\* DictUpdate, were a key already in d to keep its value
RECURSIVE DictUpdateKeepOld(_, _)
DictUpdateKeepOld(d, e) ==
    IF e = <<>> THEN d
    ELSE DictUpdateKeepOld(IF e[1][1] \in KeySet(d) THEN d
                           ELSE Append(d, e[1]), Tail(e))

\* dict.update(e)
RECURSIVE DictUpdate(_, _)
DictUpdate(d, e) ==
    IF e = <<>> THEN d
    ELSE DictUpdate(DictSet(d, e[1][1], e[1][2]), Tail(e))

(* ------------------- normalisation of a field value -------------------- *)

SetMin(S) == CHOOSE x \in S : \A y \in S : x <= y

\* Where the lazy ".*?>" started on the "<" at s[1] ends: at the first ">"
\* after it, unless a newline (which "." does not match) comes first; 0 when
\* there is no match at s[1].
TagEnd(s) ==
    LET stops == {k \in 2..Len(s) : s[k] \in {">", "\n"}}
    IN  IF stops = {} THEN 0
        ELSE IF s[SetMin(stops)] = ">" THEN SetMin(stops) ELSE 0

\* re.sub("<.*?>", "", value)
RECURSIVE ReSubTags(_)
ReSubTags(s) ==
    IF s = <<>> THEN <<>>
    ELSE IF s[1] = "<" /\ TagEnd(s) # 0
         THEN ReSubTags(SubSeq(s, TagEnd(s) + 1, Len(s)))
         ELSE <<s[1]>> \o ReSubTags(Tail(s))

\* .replace('\n', '; ')
RECURSIVE ReplaceNewlines(_)
ReplaceNewlines(s) ==
    IF s = <<>> THEN <<>>
    ELSE (IF s[1] = "\n" THEN <<";", " ">> ELSE <<s[1]>>)
             \o ReplaceNewlines(Tail(s))

\* .split()
RECURSIVE StrSplit(_)
StrSplit(s) ==
    IF s = <<>> THEN <<>>
    ELSE IF s[1] \in Whitespace THEN StrSplit(Tail(s))
    ELSE LET ws == {k \in 1..Len(s) : s[k] \in Whitespace}
             e  == IF ws = {} THEN Len(s) ELSE SetMin(ws) - 1
         IN  <<SubSeq(s, 1, e)>> \o StrSplit(SubSeq(s, e + 1, Len(s)))

\* sep.join(words)
RECURSIVE StrJoin(_, _)
StrJoin(sep, words) ==
    IF words = <<>> THEN <<>>
    ELSE IF Len(words) = 1 THEN words[1]
    ELSE words[1] \o sep \o StrJoin(sep, Tail(words))

\* " ".join(re.sub("<.*?>", "", value).replace('\n', '; ').split())
NormalizeValue(value) ==
    StrJoin(<<" ">>, StrSplit(ReplaceNewlines(ReSubTags(value))))

(* ------------------------------- Salary -------------------------------- *)

\* the rates of currency_to_rub are held in ten-thousandths
RateScale == 10000

\* a converted salary: halves of average_salary times ten-thousandths of rate
MoneyScale == 2 * RateScale

RUR == <<"R", "U", "R">>

currency_to_rub ==
    ( <<"A", "Z", "N">> :> 356800 ) @@ ( <<"B", "Y", "R">> :> 239100 ) @@
    ( <<"E", "U", "R">> :> 599000 ) @@ ( <<"G", "E", "L">> :> 217400 ) @@
    ( <<"K", "G", "S">> :> 7600 )   @@ ( <<"K", "Z", "T">> :> 1300 ) @@
    ( RUR :> 10000 )                @@ ( <<"U", "A", "H">> :> 16400 ) @@
    ( <<"U", "S", "D">> :> 606600 ) @@ ( <<"U", "Z", "S">> :> 55 )

\* Salary.__init__; average_salary = int(from + to) / 2 is held in halves,
\* that is as int(from + to)
Salary(salary_from, salary_to, salary_currency) ==
    LET f == PyFloat(salary_from)
        t == PyFloat(salary_to)
    IN  IF ~f.ok THEN Raise(f.err)
        ELSE IF ~t.ok THEN Raise(t.err)
        ELSE Ok([salary_from     |-> f.val,
                 salary_to       |-> t.val,
                 salary_currency |-> salary_currency,
                 average_salary  |-> TruncDiv(f.val + t.val, FloatScale)])

\* convert_to_rubles, were a currency that is not in the table given rate 1
convert_to_rubles_default_rate(self) ==
    IF self.salary_currency \in DOMAIN currency_to_rub
    THEN Ok(self.average_salary * currency_to_rub[self.salary_currency])
    ELSE Ok(self.average_salary * RateScale)

convert_to_rubles(self) ==
    IF self.salary_currency \in DOMAIN currency_to_rub
    THEN Ok(self.average_salary * currency_to_rub[self.salary_currency])
    ELSE Raise("KeyError")

(* ------------------------------- Vacancy ------------------------------- *)

\* published_at[:4]
Prefix4(s) == SubSeq(s, 1, IF Len(s) < 4 THEN Len(s) ELSE 4)

\* Vacancy.__init__ on the dict of one row
Vacancy(vacancy) ==
    LET salary == Salary(DictGet(vacancy, "salary_from"),
                         DictGet(vacancy, "salary_to"),
                         DictGet(vacancy, "salary_currency"))
    IN  IF ~salary.ok THEN Raise(salary.err)
        ELSE Ok([name         |-> DictGet(vacancy, "name"),
                 salary       |-> salary.val,
                 area_name    |-> DictGet(vacancy, "area_name"),
                 published_at |-> DictGet(vacancy, "published_at"),
                 year         |-> Prefix4(DictGet(vacancy, "published_at"))])

(* ------------------------------- DataSet ------------------------------- *)

\* the header row of the input files
Headlines ==
    <<"name", "salary_from", "salary_to", "salary_currency", "area_name",
      "published_at">>

\* RowIsFilled, were the test for empty fields left out
RowIsFilledLengthOnly(headlines, vacancy) == Len(vacancy) = Len(headlines)

\* (len(vacancy) == len(headlines)) and (all([v != "" for v in vacancy]))
RowIsFilled(headlines, vacancy) ==
    /\ Len(vacancy) = Len(headlines)
    /\ \A i \in 1..Len(vacancy) : vacancy[i] # <<>>

\* DataSet.process_vacancies: the rows in order, stopping at the first row
\* whose Vacancy cannot be built
RECURSIVE process_vacancies(_, _)
process_vacancies(headlines, vacancies) ==
    IF vacancies = <<>> THEN Ok(<<>>)
    ELSE LET n    == Len(vacancies)
             prev == process_vacancies(headlines, SubSeq(vacancies, 1, n - 1))
             row  == vacancies[n]
             v    == Vacancy(DictFromZip(headlines,
                         [i \in 1..Len(row) |-> NormalizeValue(row[i])]))
         IN  IF ~prev.ok THEN prev
             ELSE IF RowIsFilled(headlines, row)
                  THEN IF v.ok THEN Ok(Append(prev.val, v.val)) ELSE Raise(v.err)
                  ELSE prev

(* ----------------------------- YearSalary ------------------------------ *)

\* YearSalary.__init__
YearSalary(param, salary) ==
    LET rub == convert_to_rubles(salary)
    IN  IF ~rub.ok THEN Raise(rub.err)
        ELSE Ok([param |-> param, salary |-> rub.val, count_vacancies |-> 1])

\* add_salary, were the vacancy not counted
add_salary_uncounted(self, new_salary) ==
    LET rub == convert_to_rubles(new_salary)
    IN  IF ~rub.ok THEN Raise(rub.err)
        ELSE Ok([self EXCEPT !.salary = @ + rub.val])

add_salary(self, new_salary) ==
    LET rub == convert_to_rubles(new_salary)
    IN  IF ~rub.ok THEN Raise(rub.err)
        ELSE Ok([self EXCEPT !.count_vacancies = @ + 1,
                             !.salary = @ + rub.val])

(* ------------------------------ Statistic ------------------------------ *)

\* [d for d in data if self.profession in d.name]
RECURSIVE data_profession(_, _)
data_profession(prof, data) ==
    IF data = <<>> THEN <<>>
    ELSE (IF Contains(prof, data[1].name) THEN <<data[1]>> ELSE <<>>)
             \o data_profession(prof, Tail(data))

\* the loop of convert_to_param_salary: param_salary is the dict year ->
\* YearSalary built so far
RECURSIVE ParamSalaryDict(_)
ParamSalaryDict(vacancies) ==
    IF vacancies = <<>> THEN Ok(<<>>)
    ELSE LET n       == Len(vacancies)
             prev    == ParamSalaryDict(SubSeq(vacancies, 1, n - 1))
             vacancy == vacancies[n]
             entry   == IF vacancy.year \in KeySet(prev.val)
                        THEN add_salary(DictGet(prev.val, vacancy.year),
                                        vacancy.salary)
                        ELSE YearSalary(vacancy.year, vacancy.salary)
         IN  IF ~prev.ok THEN prev
             ELSE IF ~entry.ok THEN Raise(entry.err)
             ELSE Ok(DictSet(prev.val, vacancy.year, entry.val))

\* Statistic.convert_to_param_salary
convert_to_param_salary(vacancies) ==
    LET param_salary == ParamSalaryDict(vacancies)
    IN  IF param_salary.ok THEN Ok(DictValues(param_salary.val))
        ELSE param_salary

\* MissingYearIndex, were it one too far
MissingYearIndexOffByOne(y, first) == PyInt(y).val - PyInt(first).val + 1

\* where __add_missing_years inserts the entry of the missing year y
MissingYearIndex(y, first) == PyInt(y).val - PyInt(first).val

\* the loop of __add_missing_years from years[k] on
RECURSIVE AddMissingFrom(_, _, _, _)
AddMissingFrom(param_salary, years, s_years, k) ==
    IF k > Len(years) THEN Ok(param_salary)
    ELSE IF years[k] \in s_years
         THEN AddMissingFrom(param_salary, years, s_years, k + 1)
    ELSE IF ~PyInt(years[k]).ok \/ ~PyInt(years[1]).ok
         THEN Raise("ValueError")
    ELSE LET idx  == MissingYearIndex(years[k], years[1])
             zero == YearSalary(years[k],
                                Salary(<<"0">>, <<"0">>, RUR).val).val
             ins  == ListInsert(param_salary, idx, zero)
             pos  == ListIndex(ins, idx)
         IN  IF pos = 0 THEN Raise("IndexError")
             ELSE AddMissingFrom([ins EXCEPT ![pos].count_vacancies = 0],
                                 years, s_years, k + 1)

\* Statistic.__add_missing_years
add_missing_years(param_salary, all_year_salary) ==
    LET years   == [i \in 1..Len(all_year_salary) |-> all_year_salary[i].param]
        s_years == {param_salary[i].param : i \in 1..Len(param_salary)}
    IN  AddMissingFrom(param_salary, years, s_years, 1)

\* MeanSalary, were the quotient taken with // (rounded down)
MeanSalaryFloorDiv(v) ==
    IF v.count_vacancies = 0 THEN 0
    ELSE v.salary \div (MoneyScale * v.count_vacancies)

\* 0 if v.count_vacancies == 0 else int(v.salary / v.count_vacancies)
MeanSalary(v) ==
    IF v.count_vacancies = 0 THEN 0
    ELSE TruncDiv(v.salary, MoneyScale * v.count_vacancies)

\* Statistic.__convert_from_param_salary_to_dict: the two dicts
convert_from_param_salary_to_dict(param_salary) ==
    LET n    == Len(param_salary)
        keys == [i \in 1..n |-> PyInt(param_salary[i].param)]
    IN  IF \E i \in 1..n : ~keys[i].ok THEN Raise("ValueError")
        ELSE Ok(<<DictFromZip([i \in 1..n |-> keys[i].val],
                              [i \in 1..n |-> MeanSalary(param_salary[i])]),
                  DictFromZip([i \in 1..n |-> keys[i].val],
                              [i \in 1..n |-> param_salary[i].count_vacancies])>>)

\* Statistic.process_data, line by line
\* LoadStep, were the rows of the files processed before kept by the reader
LoadStepKeepingRows(file) ==
    LET kept[n \in 0..Len(completed)] ==
            IF n = 0 THEN <<>> ELSE kept[n - 1] \o files[completed[n]]
    IN  process_vacancies(Headlines, kept[Len(completed)] \o file)

LoadStep(file) == process_vacancies(Headlines, file)

GroupStep(data) == convert_to_param_salary(data)

FillStep(prof, data, all_year_salary) ==
    LET param_salary == convert_to_param_salary(data_profession(prof, data))
    IN  IF ~param_salary.ok THEN param_salary
        ELSE add_missing_years(param_salary.val, all_year_salary)

ConvertStep(all_year_salary, prof_year_salary) ==
    LET a == convert_from_param_salary_to_dict(all_year_salary)
        p == convert_from_param_salary_to_dict(prof_year_salary)
    IN  IF ~a.ok THEN a
        ELSE IF ~p.ok THEN p
        ELSE Ok(<<a.val[1], a.val[2], p.val[1], p.val[2]>>)

\* Statistic.process_data as one call
process_data(prof, file) ==
    LET data == LoadStep(file)
        ys   == GroupStep(data.val)
        ps   == FillStep(prof, data.val, ys.val)
    IN  IF ~data.ok THEN data
        ELSE IF ~ys.ok THEN ys
        ELSE IF ~ps.ok THEN ps
        ELSE ConvertStep(ys.val, ps.val)

(* ------------------------------- inputs -------------------------------- *)

\* the profession keyword typed by the user
Professions == { <<"q", "a">> }

NameProf == <<"s", "q", "a">>

NameOther == <<"d", "e", "v">>

USD == <<"U", "S", "D">>

KZT == <<"K", "Z", "T">>

City == <<"m", "s", "k">>

D2005 == <<"2", "0", "0", "5", "-", "1", "2">>

D2006 == <<"2", "0", "0", "6", "-", "0", "1">>

D2007 == <<"2", "0", "0", "7", "-", "0", "3">>

\* well-formed rows: a matching and a non-matching title for each year
RowProf2005 == <<NameProf, <<"1", "0">>, <<"2", "0">>, RUR, City, D2005>>

RowOther2005 == <<NameOther, <<"3", "0">>, <<"4", "1">>, RUR, City, D2005>>

RowProf2006 == <<NameProf, <<"1", "0">>, <<"2", "0">>, USD, City, D2006>>

RowOther2006 == <<NameOther, <<"-", "7", ".", "5">>, <<"2">>, RUR, City, D2006>>

RowProf2007 == <<NameProf, <<"5", "0">>, <<"7", "0">>, RUR, City, D2007>>

RowOther2007 == <<NameOther, <<"1", "0", ".", "5">>, <<"2", "0">>, KZT, City, D2007>>

\* a row with a field too few
RowShort == <<NameProf, <<"1", "0">>, <<"2", "0">>, RUR, D2005>>

\* a row with an empty field
RowEmptyField == <<NameProf, <<"1", "0">>, <<"2", "0">>, RUR, <<>>, D2005>>

\* a row with a field of white space only
RowBlankField == <<NameOther, <<"2", "0">>, <<"4", "0">>, RUR, <<" ">>, D2006>>

\* a row whose salary_from is no number
RowBadSalary == <<NameProf, <<"x">>, <<"2", "0">>, RUR, City, D2007>>

\* a row whose currency is not in the table
RowBadCurrency == <<NameOther, <<"1", "0">>, <<"2", "0">>, <<"X", "X", "X">>, City, D2007>>

RowPool ==
    { RowProf2005, RowOther2005, RowProf2006, RowOther2006, RowProf2007,
      RowOther2007, RowShort, RowEmptyField, RowBlankField, RowBadSalary,
      RowBadCurrency }

\* the files of a directory of several files
CorpusFiles ==
    { <<RowProf2005, RowOther2005>>,
      <<RowProf2006>>,
      <<RowOther2006, RowProf2007>>,
      <<RowBadCurrency>>,
      <<RowBadSalary, RowProf2005>> }

\* a directory: one file of up to MaxRows rows, or up to MaxFiles files
Corpora ==
    { <<f>> : f \in SeqsUpTo(RowPool, MaxRows) }
        \cup SeqsUpTo(CorpusFiles, MaxFiles)

FieldAlphabet == {"<", ">", "\n", " ", "a"}

(* ---------------------------- the processes ---------------------------- *)

NewTask ==
    [pc |-> "pending", data |-> <<>>, year_salary |-> <<>>,
     professions_year_salary |-> <<>>, result |-> <<>>, err |-> "", at |-> ""]

NoField == [pc |-> "idle", raw |-> <<>>, value |-> <<>>]

\* no SplitCsvFileByYear has been constructed
NoSplitter ==
    [pc |-> "idle", vacancies |-> <<>>, k |-> 0, cur_year |-> <<>>,
     vacancies_cur_year |-> <<>>, written |-> <<>>]

Init ==
    /\ files \in Corpora
    /\ profession \in Professions
    /\ tasks = [i \in 1..Len(files) |-> NewTask]
    /\ completed = <<>>
    /\ mainpc = "map"
    /\ r = <<>>
    /\ mergeIdx = 0
    /\ year_salary = <<>>
    /\ year_vacancy = <<>>
    /\ professions_year_salary = <<>>
    /\ professions_year_vacancies = <<>>
    /\ report = <<>>
    /\ nf = NoField
    /\ splitter = NoSplitter

mainVars ==
    <<mainpc, r, mergeIdx, year_salary, year_vacancy, professions_year_salary,
      professions_year_vacancies, report>>

Running == {i \in DOMAIN tasks : tasks[i].pc \in {"load", "group", "fill", "convert"}}

Finished(t) == t.pc \in {"done", "failed"}

\* the call raised at the statement the task was at: the future of the task
\* holds the exception
Fail(i, e) ==
    /\ tasks' = [tasks EXCEPT ![i].pc = "failed", ![i].err = e,
                              ![i].at = tasks[i].pc]
    /\ completed' = Append(completed, i)

\* a free worker process takes the call of file i
Start(i) ==
    /\ tasks[i].pc = "pending"
    /\ Cardinality(Running) < NumWorkers
    /\ tasks' = [tasks EXCEPT ![i].pc = "load"]
    /\ UNCHANGED <<files, profession, completed, mainVars, nf, splitter>>

\* data = DataSet(file_name).vacancies_objects
Load(i) ==
    /\ tasks[i].pc = "load"
    /\ LET data == LoadStep(files[i])
       IN  IF data.ok
           THEN /\ tasks' = [tasks EXCEPT ![i].pc = "group", ![i].data = data.val]
                /\ UNCHANGED completed
           ELSE Fail(i, data.err)
    /\ UNCHANGED <<files, profession, mainVars, nf, splitter>>

\* year_salary = self.convert_to_param_salary(data)
Group(i) ==
    /\ tasks[i].pc = "group"
    /\ LET ys == GroupStep(tasks[i].data)
       IN  IF ys.ok
           THEN /\ tasks' = [tasks EXCEPT ![i].pc = "fill", ![i].year_salary = ys.val]
                /\ UNCHANGED completed
           ELSE Fail(i, ys.err)
    /\ UNCHANGED <<files, profession, mainVars, nf, splitter>>

\* professions_year_salary = self.__add_missing_years(..., year_salary)
Fill(i) ==
    /\ tasks[i].pc = "fill"
    /\ LET ps == FillStep(profession, tasks[i].data, tasks[i].year_salary)
       IN  IF ps.ok
           THEN /\ tasks' = [tasks EXCEPT ![i].pc = "convert",
                                          ![i].professions_year_salary = ps.val]
                /\ UNCHANGED completed
           ELSE Fail(i, ps.err)
    /\ UNCHANGED <<files, profession, mainVars, nf, splitter>>

\* the two __convert_from_param_salary_to_dict calls and the return
Convert(i) ==
    /\ tasks[i].pc = "convert"
    /\ LET res == ConvertStep(tasks[i].year_salary, tasks[i].professions_year_salary)
       IN  IF res.ok
           THEN /\ tasks' = [tasks EXCEPT ![i].pc = "done", ![i].result = res.val]
                /\ completed' = Append(completed, i)
           ELSE Fail(i, res.err)
    /\ UNCHANGED <<files, profession, mainVars, nf, splitter>>

\* NextResult, were the results taken as the tasks complete
NextResultAsCompleted(k, done) == IF k <= Len(done) THEN done[k] ELSE 0

\* executor.map yields the k-th result in the order the files were submitted
NextResult(k, done) == k

\* MapRaises, were the exception of a task swallowed
MapRaisesNever(t) == FALSE

\* a result that is an exception is raised out of list(executor.map(...))
MapRaises(t) == t.pc = "failed"

\* ListComplete, were the results surfaced as soon as one is there
ListCompleteAtFirst(got, n) == Len(got) >= 1 \/ n = 0

\* list(...) returns once it holds a result for every file
ListComplete(got, n) == Len(got) = n

\* list(executor.map(...)) takes the next result, waiting for its task
Collect ==
    /\ mainpc = "map"
    /\ ~ListComplete(r, Len(files))
    /\ LET n == NextResult(Len(r) + 1, completed)
       IN  /\ n \in DOMAIN tasks
           /\ Finished(tasks[n])
           /\ IF MapRaises(tasks[n])
              THEN /\ mainpc' = "crashed"
                   /\ UNCHANGED r
              ELSE /\ r' = Append(r, tasks[n].result)
                   /\ UNCHANGED mainpc
    /\ UNCHANGED <<files, profession, tasks, completed, mergeIdx, year_salary,
                   year_vacancy, professions_year_salary,
                   professions_year_vacancies, report, nf, splitter>>

\* r = list(executor.map(stats.process_data, files)) is assigned
MapReturn ==
    /\ mainpc = "map"
    /\ ListComplete(r, Len(files))
    /\ mainpc' = "merge"
    /\ UNCHANGED <<files, profession, tasks, completed, r, mergeIdx, year_salary,
                   year_vacancy, professions_year_salary,
                   professions_year_vacancies, report, nf, splitter>>

\* one pass of "for el in r": value.update(el[i]) for the four dicts
MergeStep ==
    /\ mainpc = "merge"
    /\ mergeIdx < Len(r)
    /\ LET el == r[mergeIdx + 1]
       IN  /\ year_salary' = DictUpdate(year_salary, el[1])
           /\ year_vacancy' = DictUpdate(year_vacancy, el[2])
           /\ professions_year_salary' = DictUpdate(professions_year_salary, el[3])
           /\ professions_year_vacancies' = DictUpdate(professions_year_vacancies, el[4])
    /\ mergeIdx' = mergeIdx + 1
    /\ UNCHANGED <<files, profession, tasks, completed, mainpc, r, report, nf, splitter>>

\* the loop is over and the with block is left
ExitPool ==
    /\ mainpc = "merge"
    /\ mergeIdx = Len(r)
    /\ mainpc' = "create_files"
    /\ UNCHANGED <<files, profession, tasks, completed, r, mergeIdx, year_salary,
                   year_vacancy, professions_year_salary,
                   professions_year_vacancies, report, nf, splitter>>

\* CreateStatisticFiles.create_files: the lists handed to Report and Graphic
ReportData(ys, yv, pys, pyv) ==
    [years                        |-> DictKeys(ys),
     average_salary               |-> DictValues(ys),
     average_salary_profession    |-> DictValues(pys),
     count_vacancies_by_year      |-> DictValues(yv),
     count_vacancies_by_year_prof |-> DictValues(pyv)]

create_files ==
    /\ mainpc = "create_files"
    /\ report' = ReportData(year_salary, year_vacancy, professions_year_salary,
                            professions_year_vacancies)
    /\ mainpc' = "done"
    /\ UNCHANGED <<files, profession, tasks, completed, r, mergeIdx, year_salary,
                   year_vacancy, professions_year_salary,
                   professions_year_vacancies, nf, splitter>>

Next ==
    \/ \E i \in DOMAIN tasks : Start(i)
    \/ \E i \in DOMAIN tasks : Load(i)
    \/ \E i \in DOMAIN tasks : Group(i)
    \/ \E i \in DOMAIN tasks : Fill(i)
    \/ \E i \in DOMAIN tasks : Convert(i)
    \/ Collect
    \/ MapReturn
    \/ MergeStep
    \/ ExitPool
    \/ create_files

Spec == Init /\ [][Next]_vars

(* -------------- the normaliser on one field, step by step -------------- *)

FieldInputs == SeqsUpTo(FieldAlphabet, MaxFieldLen)

InitField ==
    /\ files = <<>>
    /\ profession \in Professions
    /\ tasks = <<>>
    /\ completed = <<>>
    /\ mainpc = "map"
    /\ r = <<>>
    /\ mergeIdx = 0
    /\ year_salary = <<>>
    /\ year_vacancy = <<>>
    /\ professions_year_salary = <<>>
    /\ professions_year_vacancies = <<>>
    /\ report = <<>>
    /\ \E raw \in FieldInputs : nf = [pc |-> "sub", raw |-> raw, value |-> raw]
    /\ splitter = NoSplitter

pipelineVars ==
    <<files, profession, tasks, completed, mainpc, r, mergeIdx, year_salary,
      year_vacancy, professions_year_salary, professions_year_vacancies, report>>

\* re.sub("<.*?>", "", value)
NormSub ==
    /\ nf.pc = "sub"
    /\ nf' = [nf EXCEPT !.pc = "replace", !.value = ReSubTags(nf.value)]
    /\ UNCHANGED <<pipelineVars, splitter>>

\* .replace('\n', '; ')
NormReplace ==
    /\ nf.pc = "replace"
    /\ nf' = [nf EXCEPT !.pc = "split", !.value = ReplaceNewlines(nf.value)]
    /\ UNCHANGED <<pipelineVars, splitter>>

\* " ".join(....split())
NormSplitJoin ==
    /\ nf.pc = "split"
    /\ nf' = [nf EXCEPT !.pc = "done", !.value = StrJoin(<<" ">>, StrSplit(nf.value))]
    /\ UNCHANGED <<pipelineVars, splitter>>

NextField == NormSub \/ NormReplace \/ NormSplitJoin

SpecField == InitField /\ [][NextField]_vars

(* ----------------- SplitCsvFileByYear, row by row ---------------------- *)

\* rows of three years, one of them with a field that is blank once
\* normalised, and a row with an empty field
SplitRowPool ==
    {RowProf2005, RowOther2005, RowProf2006, RowBlankField, RowProf2007,
     RowEmptyField}

SplitInputs == SeqsUpTo(SplitRowPool, MaxSplitRows)

\* __csv_writer: open(f'..._{cur_year}.csv', 'w') creates the file of the
\* year or replaces the one that is there; written is the dict from the year
\* in the file name to the rows under the header of that file
csv_writer(written, vacancies, cur_year) == DictSet(written, cur_year, vacancies)

\* SplitCsvFileByYear.__init__ up to the loop of __csv_process: the file is
\* read, the directory made, cur_year = "0", vacancies_cur_year = []
InitSplit ==
    /\ files = <<>>
    /\ profession \in Professions
    /\ tasks = <<>>
    /\ completed = <<>>
    /\ mainpc = "map"
    /\ r = <<>>
    /\ mergeIdx = 0
    /\ year_salary = <<>>
    /\ year_vacancy = <<>>
    /\ professions_year_salary = <<>>
    /\ professions_year_vacancies = <<>>
    /\ report = <<>>
    /\ nf = NoField
    /\ \E vacancies \in SplitInputs :
           splitter = [pc |-> "loop", vacancies |-> vacancies, k |-> 1,
                       cur_year |-> <<"0">>, vacancies_cur_year |-> <<>>,
                       written |-> <<>>]

\* one pass of the loop on a row that fails the test of line 58
SplitSkipRow ==
    /\ splitter.pc = "loop"
    /\ splitter.k <= Len(splitter.vacancies)
    /\ ~RowIsFilled(Headlines, splitter.vacancies[splitter.k])
    /\ splitter' = [splitter EXCEPT !.k = @ + 1]
    /\ UNCHANGED <<pipelineVars, nf>>

\* one pass of the loop on a row that passes it: when the year changes, the
\* rows collected so far are written under the year they belong to
SplitKeepRow ==
    /\ splitter.pc = "loop"
    /\ splitter.k <= Len(splitter.vacancies)
    /\ RowIsFilled(Headlines, splitter.vacancies[splitter.k])
    /\ LET row          == splitter.vacancies[splitter.k]
           vacancy      == [i \in 1..Len(row) |-> NormalizeValue(row[i])]
           vacancy_dict == DictFromZip(Headlines, vacancy)
           year         == Prefix4(vacancy[Len(vacancy)])
           changed      == year # splitter.cur_year
           flush        == changed /\ Len(splitter.vacancies_cur_year) # 0
       IN  splitter' =
               [splitter EXCEPT
                   !.k = @ + 1,
                   !.written = IF flush
                               THEN csv_writer(@, splitter.vacancies_cur_year,
                                               splitter.cur_year)
                               ELSE @,
                   !.cur_year = IF changed THEN year ELSE @,
                   !.vacancies_cur_year =
                       Append(IF flush THEN <<>> ELSE @, vacancy_dict)]
    /\ UNCHANGED <<pipelineVars, nf>>

\* the call of __csv_writer after the loop
SplitFinish ==
    /\ splitter.pc = "loop"
    /\ splitter.k > Len(splitter.vacancies)
    /\ splitter' =
           [splitter EXCEPT
               !.pc = "done",
               !.written = csv_writer(@, splitter.vacancies_cur_year,
                                      splitter.cur_year)]
    /\ UNCHANGED <<pipelineVars, nf>>

NextSplit == SplitSkipRow \/ SplitKeepRow \/ SplitFinish

SpecSplit == InitSplit /\ [][NextSplit]_vars

(* ------------------------------ properties ---------------------------- *)

\* the four merged dicts, in the order of a process_data result
Merged(c) ==
    CASE c = 1 -> year_salary
      [] c = 2 -> year_vacancy
      [] c = 3 -> professions_year_salary
      [] c = 4 -> professions_year_vacancies

Params(l) == [k \in 1..Len(l) |-> l[k].param]

\* the profession entries of a task before the missing years are added
Filtered(t) == convert_to_param_salary(data_profession(profession, t.data)).val

PastFill(t) == t.pc \in {"convert", "done"}

\* C1: when process_data has returned for a file, every year of the
\* all-records mappings is a key of the profession mappings, and a year with
\* no record whose title contains the profession has profession salary 0 and
\* profession count 0.
C1_ProfessionYearsFilled ==
    \A i \in DOMAIN tasks :
        tasks[i].pc = "done" =>
            LET res == tasks[i].result
                hasProf(y) ==
                    \E k \in 1..Len(tasks[i].data) :
                        /\ Contains(profession, tasks[i].data[k].name)
                        /\ PyInt(tasks[i].data[k].year).val = y
            IN  /\ KeySet(res[1]) \subseteq KeySet(res[3])
                /\ KeySet(res[2]) \subseteq KeySet(res[4])
                /\ \A y \in KeySet(res[1]) \cap KeySet(res[3]) \cap KeySet(res[4]) :
                       ~hasProf(y) =>
                           DictGet(res[3], y) = 0 /\ DictGet(res[4], y) = 0

\* the files merged so far whose mapping c holds the year y
Writers(c, y) == {j \in 1..mergeIdx : y \in KeySet(tasks[j].result[c])}

SetMax(S) == CHOOSE x \in S : \A y \in S : x >= y

Merging == mainpc \in {"merge", "create_files", "done"}

\* C2: in each of the four categories the merged mapping has the union of the
\* per-file key sets as its keys, and the value of a year is that of the last
\* file, in the order the paths were submitted, whose mapping holds the year;
\* a year held by one file only keeps that file's value.
C2_MergeLastWriterWins ==
    Merging =>
        \A c \in 1..4 :
            /\ KeySet(Merged(c)) =
                   UNION {KeySet(tasks[j].result[c]) : j \in 1..mergeIdx}
            /\ Len(Merged(c)) = Cardinality(KeySet(Merged(c)))
            /\ \A y \in KeySet(Merged(c)) :
                   DictGet(Merged(c), y) =
                       DictGet(tasks[SetMax(Writers(c, y))].result[c], y)
            /\ \A j \in 1..mergeIdx : \A y \in KeySet(tasks[j].result[c]) :
                   Writers(c, y) = {j} =>
                       DictGet(Merged(c), y) = DictGet(tasks[j].result[c], y)

\* two files share a year with different values, and all files are merged
C2_Witness ==
    /\ mainpc = "done"
    /\ Len(files) = 2
    /\ \E y \in KeySet(tasks[1].result[1]) \cap KeySet(tasks[2].result[1]) :
           /\ DictGet(tasks[1].result[1], y) # DictGet(tasks[2].result[1], y)
           /\ DictGet(year_salary, y) = DictGet(tasks[2].result[1], y)
    /\ KeySet(tasks[1].result[1]) # KeySet(tasks[2].result[1])

ConsecutiveAscending(years) ==
    \A k \in 2..Len(years) : PyInt(years[k]).val = PyInt(years[k - 1]).val + 1

Position(x, l) == CHOOSE k \in 1..Len(l) : l[k] = x

\* sub lists some of the years of ref, in the order ref lists them
SameRelativeOrder(sub, ref) ==
    /\ \A k \in 1..Len(sub) : \E m \in 1..Len(ref) : ref[m] = sub[k]
    /\ \A a, b \in 1..Len(sub) :
           a < b => Position(sub[a], ref) < Position(sub[b], ref)

FillPrecondition(t) ==
    /\ ConsecutiveAscending(Params(t.year_salary))
    /\ SameRelativeOrder(Params(Filtered(t)), Params(t.year_salary))

\* C3: when the reference years are consecutive and ascending in order of
\* appearance and the filtered entries list some of them in the same order,
\* __add_missing_years returns, the result lists exactly the reference years
\* in the reference order and has the reference's length, and every inserted
\* year has salary 0 and count 0.
C3_FillConsecutiveYears ==
    \A i \in DOMAIN tasks :
        LET t   == tasks[i]
            ref == Params(t.year_salary)
            out == t.professions_year_salary
        IN  /\ (t.pc = "failed" /\ t.at = "fill") => ~FillPrecondition(t)
            /\ (PastFill(t) /\ FillPrecondition(t)) =>
                   /\ Params(out) = ref
                   /\ Len(out) = Len(t.year_salary)
                   /\ \A k \in 1..Len(out) :
                          (\A m \in 1..Len(Filtered(t)) :
                               Filtered(t)[m].param # out[k].param)
                              => out[k].salary = 0 /\ out[k].count_vacancies = 0

\* the years 2005, 2006, 2007 with profession records in 2005 and 2007 only
C3_Witness ==
    \E i \in DOMAIN tasks :
        /\ PastFill(tasks[i])
        /\ Params(tasks[i].year_salary) =
               << <<"2", "0", "0", "5">>, <<"2", "0", "0", "6">>, <<"2", "0", "0", "7">> >>
        /\ Params(Filtered(tasks[i])) =
               << <<"2", "0", "0", "5">>, <<"2", "0", "0", "7">> >>
        /\ Len(tasks[i].professions_year_salary) = 3

\* C4: in what reaches the report, the keys of the profession salary mapping
\* and of the profession count mapping are the keys of the overall salary
\* mapping in the same order, for the result of one file and for the merged
\* mappings.
C4_SeriesAligned ==
    /\ \A i \in DOMAIN tasks :
           tasks[i].pc = "done" =>
               /\ DictKeys(tasks[i].result[3]) = DictKeys(tasks[i].result[1])
               /\ DictKeys(tasks[i].result[4]) = DictKeys(tasks[i].result[1])
    /\ mainpc = "done" =>
           /\ DictKeys(professions_year_salary) = report.years
           /\ DictKeys(professions_year_vacancies) = report.years

\* what process_data returns for each of the first n files
RECURSIVE FileResults(_)
FileResults(n) ==
    IF n = 0 THEN <<>>
    ELSE Append(FileResults(n - 1), process_data(profession, files[n]).val)

\* the merge of the results res taken one after the other, in mapping c
RECURSIVE MergedInOrder(_, _)
MergedInOrder(res, c) ==
    IF res = <<>> THEN <<>>
    ELSE DictUpdate(MergedInOrder(SubSeq(res, 1, Len(res) - 1), c),
                    res[Len(res)][c])

\* C5: whatever the order in which the workers start and finish the tasks,
\* the four merged mappings (values and key order) that reach create_files
\* are those of merging the files' results in the order the paths were
\* submitted.
C5_MergeDeterministic ==
    mainpc = "done" =>
        LET res == FileResults(Len(files))
        IN  \A c \in 1..4 : Merged(c) = MergedInOrder(res, c)

\* the second file finished first, and the two files disagree on a year
C5_Witness ==
    /\ mainpc = "done"
    /\ Len(files) = 2
    /\ completed = <<2, 1>>
    /\ \E y \in KeySet(tasks[1].result[1]) \cap KeySet(tasks[2].result[1]) :
           DictGet(tasks[1].result[1], y) # DictGet(tasks[2].result[1], y)

NothingMerged ==
    /\ year_salary = <<>>
    /\ year_vacancy = <<>>
    /\ professions_year_salary = <<>>
    /\ professions_year_vacancies = <<>>
    /\ mergeIdx = 0

\* C6: once process_data has failed for one file, no per-file result is ever
\* merged, the four global mappings stay empty and create_files is never
\* called, whatever the other files gave; and the run fails only so.
C6_FailureAbortsBatch ==
    /\ (\E i \in DOMAIN tasks : tasks[i].pc = "failed") =>
           /\ NothingMerged
           /\ mainpc \in {"map", "crashed"}
    /\ mainpc = "crashed" =>
           /\ \E i \in DOMAIN tasks : tasks[i].pc = "failed"
           /\ NothingMerged

\* the run has failed although another file was processed successfully
C6_Witness ==
    /\ mainpc = "crashed"
    /\ \E i, j \in DOMAIN tasks :
           /\ tasks[i].pc = "failed"
           /\ tasks[j].pc = "done"
           /\ tasks[j].result[1] # <<>>
    /\ Len(r) = 1

\* C7: the global mappings hold a file's result only when the task of every
\* file has completed, and create_files is called only after the results of
\* all files have been merged.
C7_MergeAfterAllTasks ==
    /\ (Merging \/ ~NothingMerged) =>
           /\ \A i \in DOMAIN tasks : tasks[i].pc = "done"
           /\ Len(r) = Len(files)
    /\ mainpc \in {"create_files", "done"} => mergeIdx = Len(files)

\* the merge is under way: one of two files is merged
C7_Witness ==
    /\ mainpc = "merge"
    /\ Len(files) = 2
    /\ mergeIdx = 1
    /\ year_salary # <<>>

\* a row process_vacancies is to drop: a field count other than the header's,
\* or an empty field
DroppedRow(row) ==
    \/ Len(row) # Len(Headlines)
    \/ \E k \in 1..Len(row) : row[k] = <<>>

WithoutDropped(file) == SelectSeq(file, LAMBDA row : ~DroppedRow(row))

Outcome(t) == IF t.pc = "done" THEN Ok(t.result) ELSE Raise(t.err)

\* C8: what process_data gives for a file when its task finishes (the four
\* mappings, or the error) is what it gives for the file with every dropped
\* row removed.
C8_DroppedRowsContributeNothing ==
    [][\A i \in DOMAIN tasks :
          (~Finished(tasks[i]) /\ Finished(tasks'[i])) =>
              Outcome(tasks'[i]) =
                  process_data(profession, WithoutDropped(files[i]))]_vars

\* a file with a short row, a row with an empty field and a counted row
C8_Witness ==
    \E i \in DOMAIN tasks :
        /\ tasks[i].pc = "done"
        /\ \E a, b \in 1..Len(files[i]) :
               files[i][a] = RowShort /\ files[i][b] = RowEmptyField
        /\ tasks[i].result[1] # <<>>

\* s.strip()
RECURSIVE StrStrip(_)
StrStrip(s) ==
    IF s = <<>> THEN <<>>
    ELSE IF s[1] \in Whitespace THEN StrStrip(Tail(s))
    ELSE IF s[Len(s)] \in Whitespace THEN StrStrip(SubSeq(s, 1, Len(s) - 1))
    ELSE s

TrimmedRowValid(row) ==
    /\ Len(row) = Len(Headlines)
    /\ \A k \in 1..Len(row) : StrStrip(row[k]) # <<>>

\* C9: a Vacancy is created from a row only if the row has as many fields as
\* the header and no field is empty after trimming: the file's records are no
\* more than its rows of that kind, and no record holds an empty field.
C9_RecordOnlyFromTrimmedValidRow ==
    \A i \in DOMAIN tasks :
        tasks[i].pc \in {"group", "fill", "convert", "done"} =>
            /\ Len(tasks[i].data) <=
                   Cardinality({k \in 1..Len(files[i]) : TrimmedRowValid(files[i][k])})
            /\ \A k \in 1..Len(tasks[i].data) :
                   /\ tasks[i].data[k].name # <<>>
                   /\ tasks[i].data[k].area_name # <<>>
                   /\ tasks[i].data[k].published_at # <<>>

\* a "<" followed, anywhere later, by a ">"
HasTag(s) == \E a, b \in 1..Len(s) : a < b /\ s[a] = "<" /\ s[b] = ">"

\* C10: a normalised field holds no substring of the form "<" ... ">" and no
\* newline, whatever the field held.
C10_NormalizedFieldClean ==
    nf.pc = "done" =>
        /\ ~HasTag(nf.value)
        /\ \A k \in 1..Len(nf.value) : nf.value[k] # "\n"

\* C11: the average_salary of every Salary built from numeric bounds is the
\* midpoint (low + high) / 2 truncated to an integer, so integer-valued, and
\* convert_to_rubles multiplies that truncated value by the rate of the
\* currency.
C11_AverageIsTruncatedMidpoint ==
    \A i \in DOMAIN tasks :
        \A k \in 1..Len(tasks[i].data) :
            LET s        == tasks[i].data[k].salary
                midpoint == TruncDiv(s.salary_from + s.salary_to, 2 * FloatScale)
            IN  /\ s.average_salary = 2 * midpoint
                /\ s.salary_currency \in DOMAIN currency_to_rub =>
                       convert_to_rubles(s).val
                           = 2 * midpoint * currency_to_rub[s.salary_currency]

\* the field of a row under a column of the header, as the Vacancy reads it
RowField(row, column) == NormalizeValue(row[Position(column, Headlines)])

\* a row the reader keeps whose currency code is not in the rate table
HasUnknownCurrencyRow(file) ==
    \E k \in 1..Len(file) :
        /\ RowIsFilled(Headlines, file[k])
        /\ RowField(file[k], "salary_currency") \notin DOMAIN currency_to_rub

\* a row the reader keeps with a salary bound that is not a number
HasUnparsableSalaryRow(file) ==
    \E k \in 1..Len(file) :
        /\ RowIsFilled(Headlines, file[k])
        /\ \/ ~PyFloat(RowField(file[k], "salary_from")).ok
           \/ ~PyFloat(RowField(file[k], "salary_to")).ok

\* what a task has aggregated or returned so far
NothingAggregated(t) ==
    /\ t.pc \notin {"fill", "convert", "done"}
    /\ t.year_salary = <<>>
    /\ t.professions_year_salary = <<>>
    /\ t.result = <<>>

\* C12 as stated: process_data on a file with a valid row whose currency is
\* not one of the 10 codes of the rate table ends in a lookup error
\* (KeyError) and returns no mappings; the record is never aggregated.
C12_UnknownCurrencyEndsInKeyError ==
    \A i \in DOMAIN tasks :
        HasUnknownCurrencyRow(files[i]) =>
            /\ NothingAggregated(tasks[i])
            /\ Finished(tasks[i]) =>
                   tasks[i].pc = "failed" /\ tasks[i].err = "KeyError"

\* C12 amended: process_data on a file with a valid row whose currency is
\* not in the rate table never aggregates anything and ends in an error
\* without returning mappings: the KeyError of the conversion, raised while
\* grouping by year, unless a valid row of the file has a salary bound that
\* is not a number, in which case the ValueError of that row is raised
\* first, while the file is loaded.
C12_UnknownCurrencyEndsInError ==
    \A i \in DOMAIN tasks :
        HasUnknownCurrencyRow(files[i]) =>
            /\ NothingAggregated(tasks[i])
            /\ Finished(tasks[i]) =>
                   /\ tasks[i].pc = "failed"
                   /\ IF HasUnparsableSalaryRow(files[i])
                      THEN tasks[i].err = "ValueError" /\ tasks[i].at = "load"
                      ELSE tasks[i].err = "KeyError" /\ tasks[i].at = "group"

\* a file with well-formed rows next to the row of unknown currency has
\* failed with the KeyError
C12_Witness ==
    \E i \in DOMAIN tasks :
        /\ HasUnknownCurrencyRow(files[i])
        /\ ~HasUnparsableSalaryRow(files[i])
        /\ tasks[i].pc = "failed"
        /\ tasks[i].err = "KeyError"
        /\ Len(tasks[i].data) >= 2

FillRan(t) == PastFill(t) \/ (t.pc = "failed" /\ t.at = "fill")

\* a missing year of the task whose index is negative or greater than the
\* length the list has when that year is reached
OutOfRangeInsert(t) ==
    LET ref     == Params(t.year_salary)
        present == {Filtered(t)[m].param : m \in 1..Len(Filtered(t))}
        curLen(k) == Len(Filtered(t))
                         + Cardinality({m \in 1..(k - 1) : ref[m] \notin present})
    IN  \E k \in 1..Len(ref) :
            /\ ref[k] \notin present
            /\ LET idx == MissingYearIndex(ref[k], ref[1])
               IN  idx < 0 \/ idx > curLen(k)

\* C14: when the index computed for a missing year is negative or greater
\* than the current length of the filtered list, __add_missing_years still
\* inserts the zero entry and returns normally with that year in the result:
\* no error is raised.
C14_OutOfRangeInsertReturns ==
    \A i \in DOMAIN tasks :
        (FillRan(tasks[i]) /\ OutOfRangeInsert(tasks[i])) =>
            /\ tasks[i].pc # "failed"
            /\ \A k \in 1..Len(tasks[i].year_salary) :
                   \E m \in 1..Len(tasks[i].professions_year_salary) :
                       tasks[i].professions_year_salary[m].param
                           = tasks[i].year_salary[k].param

\* the task holds the aggregates of convert_to_param_salary(data)
Grouped(t) ==
    \/ t.pc \in {"fill", "convert", "done"}
    \/ t.pc = "failed" /\ t.at \in {"fill", "convert"}

\* the distinct elements of a list in the order of their first appearance
RECURSIVE FirstAppearances(_)
FirstAppearances(l) ==
    IF l = <<>> THEN <<>>
    ELSE LET n    == Len(l)
             prev == FirstAppearances(SubSeq(l, 1, n - 1))
         IN  IF \E k \in 1..Len(prev) : prev[k] = l[n] THEN prev
             ELSE Append(prev, l[n])

\* the converted salaries of the records of year y, added up
RECURSIVE ConvertedSum(_, _)
ConvertedSum(data, y) ==
    IF data = <<>> THEN 0
    ELSE (IF data[1].year = y THEN convert_to_rubles(data[1].salary).val ELSE 0)
             + ConvertedSum(Tail(data), y)

RECURSIVE TotalCount(_)
TotalCount(l) ==
    IF l = <<>> THEN 0 ELSE l[1].count_vacancies + TotalCount(Tail(l))

\* C15: convert_to_param_salary returns exactly one aggregate per distinct
\* year of the records, in the order in which the years first appear; the
\* count of an aggregate is the number of records of its year and its sum is
\* the sum of their converted salaries; the counts add up to the number of
\* records.
C15_OneAggregatePerYear ==
    \A i \in DOMAIN tasks :
        Grouped(tasks[i]) =>
            LET data == tasks[i].data
                ys   == tasks[i].year_salary
            IN  /\ \A a, b \in 1..Len(ys) : a # b => ys[a].param # ys[b].param
                /\ Params(ys) = FirstAppearances([k \in 1..Len(data) |-> data[k].year])
                /\ \A k \in 1..Len(ys) :
                       /\ ys[k].count_vacancies
                              = Cardinality({m \in 1..Len(data) :
                                                 data[m].year = ys[k].param})
                       /\ ys[k].salary = ConvertedSum(data, ys[k].param)
                /\ TotalCount(ys) = Len(data)

\* records of 2006, 2005, 2006 in this order: two aggregates, 2006 first with
\* count 2
C15_Witness ==
    \E i \in DOMAIN tasks :
        /\ Grouped(tasks[i])
        /\ Len(tasks[i].data) = 3
        /\ tasks[i].data[1].year = tasks[i].data[3].year
        /\ tasks[i].data[1].year # tasks[i].data[2].year
        /\ tasks[i].data[1].salary # tasks[i].data[3].salary
        /\ Len(tasks[i].year_salary) = 2
        /\ tasks[i].year_salary[1].count_vacancies = 2

\* the two mappings of a list of aggregates, as the task returned them in
\* result[s] (mean salaries) and result[c] (counts)
MappingsAsFloor(l, salaries, counts) ==
    /\ DictKeys(salaries) = [k \in 1..Len(l) |-> PyInt(l[k].param).val]
    /\ DictKeys(counts) = DictKeys(salaries)
    /\ \A k \in 1..Len(l) :
           /\ DictValues(counts)[k] = l[k].count_vacancies
           /\ DictValues(salaries)[k] =
                  IF l[k].count_vacancies = 0 THEN 0
                  ELSE l[k].salary \div (MoneyScale * l[k].count_vacancies)

\* q is the quotient sum / count with its fractional part dropped
IsTruncatedQuotient(q, sum, count) ==
    IF sum >= 0
    THEN q * count <= sum /\ sum < (q + 1) * count
    ELSE (q - 1) * count < sum /\ sum <= q * count

MappingsAsTruncation(l, salaries, counts) ==
    /\ DictKeys(salaries) = [k \in 1..Len(l) |-> PyInt(l[k].param).val]
    /\ DictKeys(counts) = DictKeys(salaries)
    /\ \A k \in 1..Len(l) :
           /\ DictValues(counts)[k] = l[k].count_vacancies
           /\ IF l[k].count_vacancies = 0 THEN DictValues(salaries)[k] = 0
              ELSE IsTruncatedQuotient(DictValues(salaries)[k], l[k].salary,
                                       MoneyScale * l[k].count_vacancies)

\* C16 as stated: in the two mappings of a list of aggregates the keys are
\* the years of the aggregates in their order, the count mapping holds the
\* count of each aggregate, and the salary mapping holds 0 when the count is
\* 0 and floor(sum / count) otherwise, for negative sums as well.
C16_MeanIsFloor ==
    \A i \in DOMAIN tasks :
        tasks[i].pc = "done" =>
            /\ MappingsAsFloor(tasks[i].year_salary,
                               tasks[i].result[1], tasks[i].result[2])
            /\ MappingsAsFloor(tasks[i].professions_year_salary,
                               tasks[i].result[3], tasks[i].result[4])

\* C16 amended: as above, but the salary mapping holds sum / count truncated
\* toward zero when the count is not 0: floor(sum / count) for a sum that is
\* not negative, and the next integer above the floor for a negative sum
\* that the count does not divide.
C16_MeanIsTruncation ==
    \A i \in DOMAIN tasks :
        tasks[i].pc = "done" =>
            /\ MappingsAsTruncation(tasks[i].year_salary,
                                    tasks[i].result[1], tasks[i].result[2])
            /\ MappingsAsTruncation(tasks[i].professions_year_salary,
                                    tasks[i].result[3], tasks[i].result[4])

\* a returned result with a negative mean that is not the floor, a positive
\* mean and a year of count 0
C16_Witness ==
    \E i \in DOMAIN tasks :
        /\ tasks[i].pc = "done"
        /\ \E k \in 1..Len(tasks[i].year_salary) :
               /\ tasks[i].year_salary[k].salary < 0
               /\ tasks[i].year_salary[k].salary % MoneyScale # 0
               /\ DictValues(tasks[i].result[1])[k] < 0
        /\ \E k \in 1..Len(tasks[i].year_salary) :
               DictValues(tasks[i].result[1])[k] > 0
        /\ \E k \in 1..Len(tasks[i].professions_year_salary) :
               /\ tasks[i].professions_year_salary[k].count_vacancies = 0
               /\ DictValues(tasks[i].result[3])[k] = 0

\* C17: __add_missing_years never changes an entry that was in the filtered
\* list: every year present before the call has the same sum and the same
\* count after it, and only the entries the call inserted have count 0 by
\* its doing.
C17_FillKeepsExistingEntries ==
    \A i \in DOMAIN tasks :
        PastFill(tasks[i]) =>
            LET before == Filtered(tasks[i])
                after  == tasks[i].professions_year_salary
            IN  /\ \A m \in 1..Len(before) :
                       \E k \in 1..Len(after) : after[k] = before[m]
                /\ \A k \in 1..Len(after) :
                       after[k].count_vacancies = 0 =>
                           \A m \in 1..Len(before) :
                               before[m].param # after[k].param

\* the year in the name of the file a row of the input belongs to
SplitYear(row) == Prefix4(NormalizeValue(row[Len(row)]))

\* the rows of year y that pass the test of the splitter, as it writes them,
\* in the order of the input
RECURSIVE ValidRowsOfYear(_, _)
ValidRowsOfYear(vacancies, y) ==
    IF vacancies = <<>> THEN <<>>
    ELSE LET row == vacancies[1]
         IN  (IF RowIsFilled(Headlines, row) /\ SplitYear(row) = y
              THEN << DictFromZip(Headlines,
                          [i \in 1..Len(row) |-> NormalizeValue(row[i])]) >>
              ELSE <<>>)
                 \o ValidRowsOfYear(Tail(vacancies), y)

\* C18: when the split has ended, for every year of a valid row of the
\* input the file written for that year holds every valid row of that year,
\* in the order of the input, whatever the order of the years in the input:
\* no valid row is lost.
C18_SplitKeepsEveryValidRow ==
    splitter.pc = "done" =>
        \A k \in 1..Len(splitter.vacancies) :
            RowIsFilled(Headlines, splitter.vacancies[k]) =>
                LET y == SplitYear(splitter.vacancies[k])
                IN  /\ y \in KeySet(splitter.written)
                    /\ DictGet(splitter.written, y)
                           = ValidRowsOfYear(splitter.vacancies, y)

====
